---------------------------- MODULE Spec2Model ----------------------------
(***************************************************************************)
(* A model of the TLS 1.3 client of nakagami/tinytls13: the TLSContext and *)
(* TLSSocket classes of src/tinytls/__init__.py, and the TLSSocket of the  *)
(* older package src/tinytls13/tlssocket.py (variable pkg says which of    *)
(* the two packages the program uses).                                     *)
(*                                                                         *)
(* Byte strings are sequences of elements.  An element is either one       *)
(* literal byte [b |-> 0..255] or a run of n bytes of the output of a      *)
(* cryptographic function, [blk |-> term, off |-> o, n |-> n]: the bytes   *)
(* o .. o+n-1 of the value the term denotes.  Hashes, MACs, keys and       *)
(* ciphertexts are such terms, so two of them are equal exactly when they  *)
(* were computed from equal inputs.                                        *)
(***************************************************************************)
EXTENDS Integers, Sequences, FiniteSets, TLC

\* ------------------------------------------------------------ bounds
MaxEvents == 6     \* calls made by the caller plus records received in handshakes
MaxLater == 4      \* the same, after the first handshake, in SpecEstablished

\* --------------------------------------------------------- byte strings
\* bytes literal b'...'
B(ints) == [i \in 1..Len(ints) |-> [b |-> ints[i]]]

\* n bytes that are the whole value of a cryptographic term
Blk(term, n) == <<[blk |-> term, off |-> 0, n |-> n]>>

IsLit(e) == "b" \in DOMAIN e

Width(e) == IF IsLit(e) THEN 1 ELSE e.n

\* the length of the first i elements of bs
RECURSIVE LenTo(_, _)
LenTo(bs, i) == IF i = 0 THEN 0 ELSE Width(bs[i]) + LenTo(bs, i - 1)

\* len(bs)
BLen(bs) == LenTo(bs, Len(bs))

\* the number of whole elements of bs, from element i on, that fit in k bytes
RECURSIVE Fit(_, _, _)
Fit(bs, i, k) ==
    IF i > Len(bs) \/ Width(bs[i]) > k THEN 0 ELSE 1 + Fit(bs, i + 1, k - Width(bs[i]))

\* bs[:k], k >= 0: the elements that fit, and the first bytes of the next one
BTake(bs, k) ==
    LET m == Fit(bs, 1, k)
        left == k - LenTo(bs, m)
    IN IF m = Len(bs) \/ left <= 0 THEN SubSeq(bs, 1, m)
       ELSE SubSeq(bs, 1, m)
            \o <<[blk |-> bs[m + 1].blk, off |-> bs[m + 1].off, n |-> left]>>

\* bs[k:], k >= 0: the last bytes of the element that k cuts, and the elements after it
BDrop(bs, k) ==
    LET m == Fit(bs, 1, k)
        left == k - LenTo(bs, m)
    IN IF m = Len(bs) \/ left <= 0 THEN SubSeq(bs, m + 1, Len(bs))
       ELSE <<[blk |-> bs[m + 1].blk, off |-> bs[m + 1].off + left,
               n |-> bs[m + 1].n - left]>>
            \o SubSeq(bs, m + 2, Len(bs))

\* b''.join(list)
RECURSIVE Join(_)
Join(list) == IF list = <<>> THEN <<>> ELSE Head(list) \o Join(Tail(list))

RECURSIVE Pow256(_)
Pow256(n) == IF n = 0 THEN 1 ELSE 256 * Pow256(n - 1)

\* utils.bint_to_bytes(v, ln): big endian, ln bytes
bint_to_bytes(v, ln) == [i \in 1..ln |-> [b |-> (v \div Pow256(ln - i)) % 256]]

\* utils.bytes_to_bint(bs): big endian; 0 for b''
RECURSIVE bytes_to_bint(_)
bytes_to_bint(bs) ==
    IF bs = <<>> THEN 0
    ELSE 256 * bytes_to_bint(SubSeq(bs, 1, Len(bs) - 1)) + bs[Len(bs)].b

\* utils.pad16(ln): the zero bytes that bring ln to a multiple of 16
pad16(ln) == [i \in 1..((16 - (ln % 16)) % 16) |-> [b |-> 0]]

\* utils.urandom(n); id names the draw
urandom(id, n) == Blk([urandom |-> id], n)

\* ------------------------------------------------------------- crypto
\* hashlib.sha256(msg).digest()
sha256(msg) == Blk([sha256 |-> msg], 32)

\* utils.hmac_sha256(key, msg)
hmac_sha256(key, msg) == Blk([hmac_key |-> key, hmac_msg |-> msg], 32)

\* hkdf.HKDF_expand_label(secret, label, context, length)
HKDF_expand_label(secret, label, context, length) ==
    Blk([prk |-> secret, label |-> label, context |-> context, length |-> length], length)

\* hkdf.derive_secret(secret, label, messages)
derive_secret(secret, label, messages) ==
    HKDF_expand_label(secret, label, sha256(messages), 32)

\* hkdf.gen_key_and_iv(secret)
gen_key_and_iv(secret) ==
    <<HKDF_expand_label(secret, "key", <<>>, 32), HKDF_expand_label(secret, "iv", <<>>, 12)>>

\* x25519.base_point_mult(scalar): the point scalar * base
base_point_mult(scalar) == Blk([scalars |-> {scalar}], 32)

\* x25519.multscalar(scalar, u): scalar * u, for u a point k * base
multscalar(scalar, u) == Blk([scalars |-> u[1].blk.scalars \cup {scalar}], 32)

\* ChaCha20Poly1305(key, iv): an AEAD cipher with its record sequence counter
ChaCha20Poly1305(key, iv) == [key |-> key, iv |-> iv, seq_number |-> 0]

\* what an attribute that was never assigned holds
NoBytes == <<>>
NoCipher == [key |-> <<>>, iv |-> <<>>, seq_number |-> 0]

\* the ciphertext and tag of plaintext pt under (key, iv, seq) with additional data aad
Sealed(key, iv, seq, pt, aad) ==
    Blk([key |-> key, iv |-> iv, seq |-> seq, pt |-> pt, aad |-> aad], BLen(pt) + 16)

\* ChaCha20Poly1305.encrypt_and_tag(pt, aad): the bytes produced
encrypt_and_tag(cipher, pt, aad) == Sealed(cipher.key, cipher.iv, cipher.seq_number, pt, aad)

\* the cipher after one seal or one successful open
NextSeq(cipher) == [cipher EXCEPT !.seq_number = @ + 1]

\* whether ChaCha20Poly1305.decrypt_and_verify(message, aad) authenticates
OpenOk(cipher, message, aad) ==
    /\ cipher.key # <<>>
    /\ Len(message) = 1
    /\ ~IsLit(message[1])
    /\ "pt" \in DOMAIN message[1].blk
    /\ message[1].off = 0
    /\ message[1].n = BLen(message[1].blk.pt) + 16
    /\ message[1].blk.key = cipher.key
    /\ message[1].blk.iv = cipher.iv
    /\ message[1].blk.seq = cipher.seq_number
    /\ message[1].blk.aad = aad

\* the inner plaintext without its trailing zero padding
RECURSIVE StripZeros(_)
StripZeros(bs) ==
    IF bs = <<>> THEN bs
    ELSE LET e == bs[Len(bs)] IN
         IF IsLit(e) /\ e.b = 0 THEN StripZeros(SubSeq(bs, 1, Len(bs) - 1)) ELSE bs

\* ChaCha20Poly1305.decrypt_and_verify(message, aad): (plaindata, content_type)
decrypt_and_verify(message, aad) ==
    LET inner == StripZeros(message[1].blk.pt) IN
    <<BTake(inner, BLen(inner) - 1), BDrop(inner, BLen(inner) - 1)>>

\* ------------------------------------------------------------ protocol
protocol_handshake == B(<<22>>)
protocol_application_data == B(<<23>>)
protocol_change_cipher_spec == B(<<20>>)
protocol_alert == B(<<21>>)
protocol_TLS12 == B(<<3, 3>>)
protocol_client_hello_type == B(<<1>>)
protocol_server_hello == B(<<2>>)
protocol_finished == B(<<20>>)
protocol_close_notify == B(<<0>>)
protocol_handshake_failure == B(<<40>>)

\* one extension: type, uint16 length, data
Extension(type, data) == bint_to_bytes(type, 2) \o bint_to_bytes(BLen(data), 2) \o data

\* a handshake message: type byte, uint24 length, content
HandshakeMsg(type, content) == type \o bint_to_bytes(BLen(content), 3) \o content

\* protocol.client_hello_message(client_public, None); n names the random draws
client_hello_message(client_public, n) ==
    LET exts == Extension(43, B(<<2, 3, 4>>))
                \o Extension(10, B(<<0, 2, 0, 29>>))
                \o Extension(13, B(<<0, 4, 4, 3, 8, 4>>))
                \o Extension(51, B(<<0, 36, 0, 29, 0, 32>>) \o client_public)
    IN HandshakeMsg(protocol_client_hello_type,
           protocol_TLS12 \o urandom(<<1, n>>, 32) \o B(<<32>>) \o urandom(<<2, n>>, 32)
           \o B(<<0, 2, 19, 3>>) \o B(<<1, 0>>)
           \o bint_to_bytes(BLen(exts), 2) \o exts)

\* the key_share data of a ServerHello extension list, or <<>> when there is none
RECURSIVE FindKeyShare(_)
FindKeyShare(exts) ==
    IF BLen(exts) < 4 THEN <<>>
    ELSE LET type == bytes_to_bint(BTake(exts, 2))
             ln == bytes_to_bint(BTake(BDrop(exts, 2), 2))
         IN IF type = 51 THEN BTake(BDrop(exts, 4), ln)
            ELSE FindKeyShare(BDrop(exts, 4 + ln))

\* protocol.parse_server_hello(message): the server's 32-byte public key, or <<>>
\* when the message has no x25519 key_share (the parse fails)
parse_server_hello(message) ==
    LET sid_len == bytes_to_bint(BTake(BDrop(message, 38), 1))
        exts == BDrop(message, 38 + 1 + sid_len + 3 + 2)
        ks == FindKeyShare(exts)
    IN IF BTake(ks, 4) = B(<<0, 29, 0, 32>>) /\ BLen(ks) = 36 THEN BDrop(ks, 4) ELSE <<>>

\* a record as protocol.read_content(sock) returns it: (head, message)
Record(type, message) ==
    [head |-> type \o protocol_TLS12 \o bint_to_bytes(BLen(message), 2), message |-> message]

\* the outcome of a read on a transport that fails (closed, reset)
TransportError == [head |-> <<>>, message |-> <<>>]


\* ---------------------------------------------------------------- state
VARIABLES
    pkg,        \* the package in use: "tinytls" or "tinytls13"
    ctx,        \* the TLSContext objects, in creation order
    sess,       \* the TLSSocket objects, in creation order: [ctx, pc, read_buf, and
                \* the locals head, message, content_type of its handshake methods]
    sent,       \* per TLSSocket, the byte strings given to sock.send, in order
    raised,     \* per TLSSocket, whether one of its operations raised an exception
    assigned,   \* per TLSSocket, the secrets its handshake assigned, in order
    opened,     \* per TLSSocket, the (plaindata, content_type) recv has decrypted, in order
    returned,   \* per TLSSocket, the concatenated byte strings recv has returned
    last_recv,  \* per TLSSocket, the argument and the result of its last recv call
    events      \* the calls and handshake records counted so far against MaxEvents

vars == <<pkg, ctx, sess, sent, raised, assigned, opened, returned, last_recv, events>>

\* TLSContext.__init__; c names the draw of client_private
TLSContext(c) ==
    [client_private |-> urandom(<<0, c>>, 32),
     client_public |-> base_point_mult(urandom(<<0, c>>, 32)),
     messages |-> <<>>,
     shared_key |-> NoBytes,
     early_secret |-> NoBytes,
     handshake_secret |-> NoBytes,
     client_hs_traffic_secret |-> NoBytes,
     server_hs_traffic_secret |-> NoBytes,
     master_secret |-> NoBytes,
     client_app_traffic_secret |-> NoBytes,
     server_app_traffic_secret |-> NoBytes,
     client_traffic_crypto |-> NoCipher,
     server_traffic_crypto |-> NoCipher,
     client_app_data_crypto |-> NoCipher,
     server_app_data_crypto |-> NoCipher]

\* TLSContext.get_messages
get_messages(c) == Join(c.messages)

\* TLSContext.append_message
append_message(c, message) == [c EXCEPT !.messages = Append(@, message)]

\* TLSContext.set_key_exchange
set_key_exchange(c, server_public) ==
    [c EXCEPT !.shared_key = multscalar(c.client_private, server_public)]

\* TLSContext.key_schedule_in_handshake
key_schedule_in_handshake(c) ==
    LET messages == get_messages(c)
        psk == B(<<0, 0, 0, 0, 0, 0, 0, 0, 0, 0, 0, 0, 0, 0, 0, 0,
                   0, 0, 0, 0, 0, 0, 0, 0, 0, 0, 0, 0, 0, 0, 0, 0>>)
        early == hmac_sha256(psk, psk)
        hs == hmac_sha256(derive_secret(early, "derived", <<>>), c.shared_key)
        chs == derive_secret(hs, "c hs traffic", messages)
        shs == derive_secret(hs, "s hs traffic", messages)
    IN [c EXCEPT !.early_secret = early,
                 !.handshake_secret = hs,
                 !.client_hs_traffic_secret = chs,
                 !.server_hs_traffic_secret = shs,
                 !.client_traffic_crypto =
                     ChaCha20Poly1305(gen_key_and_iv(chs)[1], gen_key_and_iv(chs)[2]),
                 !.server_traffic_crypto =
                     ChaCha20Poly1305(gen_key_and_iv(shs)[1], gen_key_and_iv(shs)[2])]

\* the secrets key_schedule_in_handshake assigns, in the order of its statements
HandshakeOrder ==
    <<"early_secret", "handshake_secret",
      "client_hs_traffic_secret", "server_hs_traffic_secret">>

\* key_schedule_in_app_data storing the master secret in handshake_secret too
key_schedule_in_app_data_overwrites(c) ==
    LET messages == get_messages(c)
        label == B(<<0, 0, 0, 0, 0, 0, 0, 0, 0, 0, 0, 0, 0, 0, 0, 0,
                     0, 0, 0, 0, 0, 0, 0, 0, 0, 0, 0, 0, 0, 0, 0, 0>>)
        master == hmac_sha256(derive_secret(c.handshake_secret, "derived", <<>>), label)
        cap == derive_secret(master, "c ap traffic", messages)
        sap == derive_secret(master, "s ap traffic", messages)
    IN [c EXCEPT !.handshake_secret = master,
                 !.master_secret = master,
                 !.client_app_traffic_secret = cap,
                 !.server_app_traffic_secret = sap,
                 !.client_app_data_crypto =
                     ChaCha20Poly1305(gen_key_and_iv(cap)[1], gen_key_and_iv(cap)[2]),
                 !.server_app_data_crypto =
                     ChaCha20Poly1305(gen_key_and_iv(sap)[1], gen_key_and_iv(sap)[2])]

\* TLSContext.key_schedule_in_app_data
key_schedule_in_app_data(c) ==
    LET messages == get_messages(c)
        label == B(<<0, 0, 0, 0, 0, 0, 0, 0, 0, 0, 0, 0, 0, 0, 0, 0,
                     0, 0, 0, 0, 0, 0, 0, 0, 0, 0, 0, 0, 0, 0, 0, 0>>)
        master == hmac_sha256(derive_secret(c.handshake_secret, "derived", <<>>), label)
        cap == derive_secret(master, "c ap traffic", messages)
        sap == derive_secret(master, "s ap traffic", messages)
    IN [c EXCEPT !.master_secret = master,
                 !.client_app_traffic_secret = cap,
                 !.server_app_traffic_secret = sap,
                 !.client_app_data_crypto =
                     ChaCha20Poly1305(gen_key_and_iv(cap)[1], gen_key_and_iv(cap)[2]),
                 !.server_app_data_crypto =
                     ChaCha20Poly1305(gen_key_and_iv(sap)[1], gen_key_and_iv(sap)[2])]

\* the secrets key_schedule_in_app_data assigns, in the order of its statements
AppDataOrder ==
    <<"master_secret", "client_app_traffic_secret", "server_app_traffic_secret">>

Sessions == 1..Len(sess)

Contexts == 1..Len(ctx)

\* the positions of a TLSSocket inside wrap_socket
InHandshake ==
    {"client_hello", "server_hello", "server_handshake", "send_finished", "key_schedule"}

\* a wrap_socket call is running: the engine is driven by one caller, who makes
\* its next call when this one has returned or raised
Busy == \E s \in Sessions : sess[s].pc \in InHandshake

\* TLSSocket.__init__ of a new socket on context c
NewSocket(c) ==
    /\ sess' = Append(sess, [ctx |-> c, pc |-> "client_hello", read_buf |-> <<>>,
                             head |-> <<>>, message |-> <<>>,
                             content_type |-> <<>>])
    /\ sent' = Append(sent, <<>>)
    /\ raised' = Append(raised, FALSE)
    /\ assigned' = Append(assigned, <<>>)
    /\ opened' = Append(opened, <<>>)
    /\ returned' = Append(returned, <<>>)
    /\ last_recv' = Append(last_recv, [ln |-> 0, r |-> <<>>])

\* the exception of operation s propagates to the caller of wrap_socket
Fail(s) ==
    /\ sess' = [sess EXCEPT ![s].pc = "failed"]
    /\ raised' = [raised EXCEPT ![s] = TRUE]

\* the same, in an operation that had read the record (head, message)
FailOn(s, head, message) ==
    /\ sess' = [sess EXCEPT ![s].pc = "failed", ![s].head = head, ![s].message = message]
    /\ raised' = [raised EXCEPT ![s] = TRUE]

\* the caller makes one more call
Call == ~Busy /\ events < MaxEvents /\ events' = events + 1

\* the server sends one more record to a client in its handshake
Receive == events < MaxEvents /\ events' = events + 1

Init ==
    /\ pkg \in {"tinytls", "tinytls13"}
    /\ ctx = <<>>
    /\ sess = <<>>
    /\ sent = <<>>
    /\ raised = <<>>
    /\ assigned = <<>>
    /\ opened = <<>>
    /\ returned = <<>>
    /\ last_recv = <<>>
    /\ events = 0

\* create_default_context()
create_default_context ==
    /\ pkg = "tinytls"
    /\ ~Busy
    /\ events < MaxEvents
    /\ \A c \in Contexts : \E s \in Sessions : sess[s].ctx = c
    /\ ctx' = Append(ctx, TLSContext(Len(ctx) + 1))
    /\ UNCHANGED <<pkg, sess, sent, raised, assigned, opened, returned, last_recv, events>>

\* TLSContext.wrap_socket(sock): the construction of the TLSSocket
wrap_socket(c) ==
    /\ pkg = "tinytls"
    /\ Call
    /\ NewSocket(c)
    /\ UNCHANGED <<pkg, ctx>>

\* tinytls13: TLSSocket.__init__(sock), which creates the socket's own context
TLSSocket13 ==
    /\ pkg = "tinytls13"
    /\ Call
    /\ ctx' = Append(ctx, TLSContext(Len(ctx) + 1))
    /\ NewSocket(Len(ctx) + 1)
    /\ UNCHANGED pkg

\* TLSSocket.client_hello
client_hello(s) ==
    LET c == sess[s].ctx
        message == client_hello_message(ctx[c].client_public, s)
    IN /\ sess[s].pc = "client_hello"
       /\ ctx' = [ctx EXCEPT ![c] = append_message(@, message)]
       /\ sent' = [sent EXCEPT ![s] =
               Append(@, protocol_handshake \o protocol_TLS12
                         \o bint_to_bytes(BLen(message), 2) \o message)]
       /\ sess' = [sess EXCEPT ![s].pc = "server_hello"]
       /\ UNCHANGED <<pkg, raised, assigned, opened, returned, last_recv, events>>

\* a ServerHello message; n names the server's draws, with_key_share whether it
\* carries the key_share extension
ServerHelloMsg(n, with_key_share) ==
    LET ks == Extension(51, B(<<0, 29, 0, 32>>) \o base_point_mult(urandom(<<4, n>>, 32)))
        exts == Extension(43, B(<<3, 4>>)) \o (IF with_key_share THEN ks ELSE <<>>)
    IN HandshakeMsg(protocol_server_hello,
           protocol_TLS12 \o urandom(<<3, n>>, 32) \o B(<<32>>) \o urandom(<<2, n>>, 32)
           \o B(<<19, 3>>) \o B(<<0>>)
           \o bint_to_bytes(BLen(exts), 2) \o exts)

\* what the server may send while the client waits for ServerHello
ServerHelloRecords(s) ==
    { Record(protocol_handshake, ServerHelloMsg(s, TRUE)),
      Record(protocol_handshake, ServerHelloMsg(s, FALSE)),
      Record(protocol_alert, protocol_server_hello \o protocol_handshake_failure),
      Record(protocol_alert, protocol_server_hello \o B(<<80>>)),
      Record(protocol_handshake, HandshakeMsg(B(<<11>>), B(<<0>>))),
      TransportError }

\* server_hello's checks with the assertion on the message type only
ServerHelloChecks_type_only(head, message) ==
    BTake(message, 1) = protocol_server_hello

\* server_hello's checks on the record it read: not the handshake_failure alert,
\* and its two assertions
ServerHelloChecks(head, message) ==
    /\ ~(BTake(head, 3) = protocol_alert \o protocol_TLS12
         /\ message = protocol_server_hello \o protocol_handshake_failure)
    /\ BTake(head, 3) = protocol_handshake \o protocol_TLS12
    /\ BTake(message, 1) = protocol_server_hello

\* TLSSocket.server_hello
server_hello(s) ==
    /\ sess[s].pc = "server_hello"
    /\ Receive
    /\ \E rec \in ServerHelloRecords(s) :
         LET c == sess[s].ctx
             head == rec.head
             message == rec.message
             appended == append_message(ctx[c], message)
             server_public == parse_server_hello(message)
         IN IF rec = TransportError
            THEN /\ Fail(s)
                 /\ UNCHANGED <<ctx, assigned>>
            ELSE IF ~ServerHelloChecks(head, message)
            THEN /\ FailOn(s, head, message)
                 /\ UNCHANGED <<ctx, assigned>>
            ELSE IF server_public = <<>>
            THEN /\ FailOn(s, head, message)
                 /\ ctx' = [ctx EXCEPT ![c] = appended]
                 /\ UNCHANGED assigned
            ELSE /\ ctx' = [ctx EXCEPT ![c] =
                         key_schedule_in_handshake(set_key_exchange(appended, server_public))]
                 /\ assigned' = [assigned EXCEPT ![s] = @ \o HandshakeOrder]
                 /\ sess' = [sess EXCEPT ![s].pc = "server_handshake",
                                         ![s].head = head, ![s].message = message]
                 /\ UNCHANGED raised
    /\ UNCHANGED <<pkg, sent, opened, returned, last_recv>>

\* a record the server seals so that cipher, as it stands, opens it: content and
\* its true content type under the outer application_data header
EncryptedRecord(cipher, content, content_type) ==
    LET pt == content \o content_type
        hd == protocol_application_data \o protocol_TLS12 \o bint_to_bytes(BLen(pt) + 16, 2)
    IN [head |-> hd,
        message |-> Sealed(cipher.key, cipher.iv, cipher.seq_number, pt, hd)]

\* the same record with its sequence number off by one (reordered, replayed or
\* modified in transit): the tag does not verify
TamperedRecord(cipher, content, content_type) ==
    LET pt == content \o content_type
        hd == protocol_application_data \o protocol_TLS12 \o bint_to_bytes(BLen(pt) + 16, 2)
    IN [head |-> hd,
        message |-> Sealed(cipher.key, cipher.iv, cipher.seq_number + 1, pt, hd)]

\* the verify_data server_handshake expects when the transcript is messages
expected_verify_data(c, messages) ==
    hmac_sha256(HKDF_expand_label(c.server_hs_traffic_secret, "finished", <<>>, 32),
                sha256(Join(messages)))

\* the server's messages of the encrypted flight
EncryptedExtensions == HandshakeMsg(B(<<8>>), B(<<0, 0>>))
NewSessionTicket == HandshakeMsg(B(<<4>>), B(<<7>>))

\* the server Finished that follows the transcript of c and the messages before
ServerFinished(c, before) ==
    HandshakeMsg(protocol_finished,
                 expected_verify_data(c, c.messages \o before))

\* the plaintexts (content, content type) the server may seal in its flight
FlightPlain(c) ==
    { <<EncryptedExtensions, protocol_handshake>>,
      <<EncryptedExtensions \o ServerFinished(c, <<EncryptedExtensions>>), protocol_handshake>>,
      <<ServerFinished(c, <<>>), protocol_handshake>>,
      <<ServerFinished(c, <<>>) \o NewSessionTicket, protocol_handshake>>,
      \* the Finished, then a second one, whose verify_data the transcript no longer gives
      <<ServerFinished(c, <<>>) \o ServerFinished(c, <<>>), protocol_handshake>>,
      \* a Finished whose verify_data is another MAC
      <<HandshakeMsg(protocol_finished, hmac_sha256(<<>>, <<>>)), protocol_handshake>>,
      \* a Finished whose verify_data is the first half of the right one
      <<HandshakeMsg(protocol_finished, BTake(expected_verify_data(c, c.messages), 16)),
        protocol_handshake>>,
      \* a message that declares 5 bytes of content and carries 1
      <<B(<<8, 0, 0, 5, 0>>), protocol_handshake>>,
      \* a fatal alert
      <<protocol_server_hello \o protocol_handshake_failure, protocol_alert>> }

\* what the server may send while the client waits for its Finished
FlightRecords(c) ==
    {Record(protocol_change_cipher_spec, B(<<1>>)),
     Record(protocol_handshake, EncryptedExtensions),
     TransportError}
    \cup {EncryptedRecord(c.server_traffic_crypto, p[1], p[2]) : p \in FlightPlain(c)}
    \cup {TamperedRecord(c.server_traffic_crypto, EncryptedExtensions, protocol_handshake)}

\* FinishedOk without the comparison with the expected verify_data
FinishedOk_length_only(c, segment) == BLen(BDrop(segment, 4)) = 32

\* server_handshake's two assertions on a Finished segment
FinishedOk(c, segment) ==
    LET verify_data == BDrop(segment, 4) IN
    /\ BLen(verify_data) = 32
    /\ verify_data = expected_verify_data(c, c.messages)

\* one turn of server_handshake's inner loop: the segment it cuts off plaindata
segment_of(plaindata) ==
    BTake(plaindata, bytes_to_bint(BTake(BDrop(plaindata, 1), 3)) + 4)

\* and the plaindata it goes on with
plaindata_after(plaindata) ==
    BDrop(plaindata, bytes_to_bint(BTake(BDrop(plaindata, 1), 3)) + 4)

\* the inner loop with finished never set
RECURSIVE handshake_segments_never_finished(_, _, _)
handshake_segments_never_finished(c, plaindata, fin) ==
    IF plaindata = <<>> THEN [c |-> c, finished |-> FALSE, raised |-> FALSE]
    ELSE LET segment == segment_of(plaindata)
             rest == plaindata_after(plaindata)
         IN IF BTake(segment, 1) = protocol_finished
            THEN IF FinishedOk(c, segment)
                 THEN handshake_segments_never_finished(append_message(c, segment), rest, fin)
                 ELSE [c |-> c, finished |-> FALSE, raised |-> TRUE]
            ELSE handshake_segments_never_finished(append_message(c, segment), rest, fin)

\* server_handshake's inner loop over the decrypted plaindata: the context, whether
\* Finished was seen, and whether an assertion failed
RECURSIVE handshake_segments(_, _, _)
handshake_segments(c, plaindata, fin) ==
    IF plaindata = <<>> THEN [c |-> c, finished |-> fin, raised |-> FALSE]
    ELSE LET segment == segment_of(plaindata)
             rest == plaindata_after(plaindata)
         IN IF BTake(segment, 1) = protocol_finished
            THEN IF FinishedOk(c, segment)
                 THEN handshake_segments(append_message(c, segment), rest, TRUE)
                 ELSE [c |-> c, finished |-> fin, raised |-> TRUE]
            ELSE handshake_segments(append_message(c, segment), rest, fin)

\* a ChangeCipherSpec record appended to the transcript instead of skipped
change_cipher_spec_appended(c, message) == append_message(c, message)

\* what server_handshake does to the context on a ChangeCipherSpec record: continue
change_cipher_spec(c, message) == c

\* TLSSocket.server_handshake: one turn of its loop, on one record; head and
\* content_type are the loop's local variables
server_handshake(s) ==
    /\ sess[s].pc = "server_handshake"
    /\ Receive
    /\ \E rec \in FlightRecords(ctx[sess[s].ctx]) :
         LET c == sess[s].ctx
             head == rec.head
             message == rec.message
         IN IF rec = TransportError
            THEN Fail(s) /\ UNCHANGED ctx
            ELSE IF BTake(head, 1) = protocol_change_cipher_spec
            THEN /\ ctx' = [ctx EXCEPT ![c] = change_cipher_spec(@, message)]
                 /\ sess' = [sess EXCEPT ![s].head = head, ![s].message = message]
                 /\ UNCHANGED raised
            ELSE IF \/ BTake(head, 3) # protocol_application_data \o protocol_TLS12
                    \/ ~OpenOk(ctx[c].server_traffic_crypto, message, head)
            THEN Fail(s) /\ UNCHANGED ctx
            ELSE LET plaindata == decrypt_and_verify(message, head)[1]
                     opened_ctx == [ctx[c] EXCEPT !.server_traffic_crypto = NextSeq(@)]
                     out == handshake_segments(opened_ctx, plaindata, FALSE)
                 IN /\ ctx' = [ctx EXCEPT ![c] = out.c]
                    /\ IF out.raised THEN Fail(s)
                       ELSE /\ sess' = [sess EXCEPT ![s].pc =
                                    IF out.finished THEN "send_finished" ELSE @,
                                                     ![s].head = head,
                                                     ![s].message = message,
                                                     ![s].content_type =
                                                         decrypt_and_verify(message, head)[2]]
                            /\ UNCHANGED raised
    /\ UNCHANGED <<pkg, sent, assigned, opened, returned, last_recv>>

\* _encrypted_app_data with the tag left out of the length in the additional data
encrypted_app_data_aad_without_tag(data, content_type, encrypter) ==
    LET d == data \o content_type
        message_pad == d \o pad16(BLen(d))
        aad == protocol_application_data \o protocol_TLS12
               \o bint_to_bytes(BLen(message_pad), 2)
        encrypted == encrypt_and_tag(encrypter, message_pad, aad)
    IN protocol_application_data \o protocol_TLS12
       \o bint_to_bytes(BLen(encrypted), 2) \o encrypted

\* TLSSocket._encrypted_app_data(data, content_type, encrypter): the record sent
encrypted_app_data(data, content_type, encrypter) ==
    LET d == data \o content_type
        message_pad == d \o pad16(BLen(d))
        tag_size == 16
        aad == protocol_application_data \o protocol_TLS12
               \o bint_to_bytes(BLen(message_pad) + tag_size, 2)
        encrypted == encrypt_and_tag(encrypter, message_pad, aad)
    IN protocol_application_data \o protocol_TLS12
       \o bint_to_bytes(BLen(encrypted), 2) \o encrypted

\* the Finished message send_finished builds from the context
finish_message(c) ==
    LET finished_key == HKDF_expand_label(c.client_hs_traffic_secret, "finished", <<>>, 32)
        verify_data == hmac_sha256(finished_key, sha256(get_messages(c)))
    IN protocol_finished \o bint_to_bytes(BLen(verify_data), 3) \o verify_data

\* send_finished_ctx appending the client Finished to the transcript
send_finished_ctx_appends(c) ==
    [c EXCEPT !.client_traffic_crypto = NextSeq(@),
              !.messages = Append(@, finish_message(c))]

\* what send_finished does to the context
send_finished_ctx(c) == [c EXCEPT !.client_traffic_crypto = NextSeq(@)]

\* send_finished in a wrap_socket that derives the application keys before it
send_finished_after_key_schedule(s) ==
    LET c == sess[s].ctx IN
    /\ sess[s].pc = "send_finished"
    /\ sent' = [sent EXCEPT ![s] = Append(@,
           encrypted_app_data(finish_message(ctx[c]), protocol_handshake,
                              ctx[c].client_traffic_crypto))]
    /\ ctx' = [ctx EXCEPT ![c] = send_finished_ctx(key_schedule_in_app_data(@))]
    /\ sess' = [sess EXCEPT ![s].pc = "key_schedule"]
    /\ UNCHANGED <<pkg, raised, assigned, opened, returned, last_recv, events>>

\* TLSSocket.send_finished
send_finished(s) ==
    LET c == sess[s].ctx IN
    /\ sess[s].pc = "send_finished"
    /\ sent' = [sent EXCEPT ![s] = Append(@,
           encrypted_app_data(finish_message(ctx[c]), protocol_handshake,
                              ctx[c].client_traffic_crypto))]
    /\ ctx' = [ctx EXCEPT ![c] = send_finished_ctx(@)]
    /\ sess' = [sess EXCEPT ![s].pc = "key_schedule"]
    /\ UNCHANGED <<pkg, raised, assigned, opened, returned, last_recv, events>>

\* TLSSocket.key_schedule, and wrap_socket's return of the TLSSocket
key_schedule(s) ==
    LET c == sess[s].ctx IN
    /\ sess[s].pc = "key_schedule"
    /\ ctx' = [ctx EXCEPT ![c] = key_schedule_in_app_data(@)]
    /\ assigned' = [assigned EXCEPT ![s] = @ \o AppDataOrder]
    /\ sess' = [sess EXCEPT ![s].pc = "established"]
    /\ UNCHANGED <<pkg, sent, raised, opened, returned, last_recv, events>>

\* what the caller may pass to send: b'ping', and 2^14 + 256 bytes of data
SendData == {B(<<112, 105, 110, 103>>), Blk([data |-> 1], 16384 + 256)}

\* TLSSocket.send
send(s, data) ==
    LET c == sess[s].ctx IN
    /\ sess[s].pc = "established"
    /\ Call
    /\ sent' = [sent EXCEPT ![s] = Append(@,
           encrypted_app_data(data, protocol_application_data,
                              ctx[c].client_app_data_crypto))]
    /\ ctx' = [ctx EXCEPT ![c].client_app_data_crypto = NextSeq(@)]
    /\ UNCHANGED <<pkg, sess, raised, assigned, opened, returned, last_recv>>

\* the alert send_alert sends
alert_message == B(<<2>>) \o protocol_close_notify

\* TLSSocket.send_alert
send_alert(s) ==
    LET c == sess[s].ctx IN
    /\ sess[s].pc = "established"
    /\ Call
    /\ sent' = [sent EXCEPT ![s] = Append(@,
           encrypted_app_data(alert_message, protocol_alert,
                              ctx[c].client_app_data_crypto))]
    /\ ctx' = [ctx EXCEPT ![c].client_app_data_crypto = NextSeq(@)]
    /\ UNCHANGED <<pkg, sess, raised, assigned, opened, returned, last_recv>>

\* TLSSocket.__exit__
exit(s) == send_alert(s)

\* the plaintexts (content, content type) the server may seal once established
AppPlain ==
    { <<B(<<104>>), protocol_application_data>>,
      <<B(<<104, 105, 33>>), protocol_application_data>>,
      <<B(<<1>>) \o protocol_close_notify, protocol_alert>> }

\* what the server may send to an established client
AppRecords(c) ==
    {TransportError, TamperedRecord(c.server_app_data_crypto, B(<<104>>),
                                    protocol_application_data)}
    \cup {EncryptedRecord(c.server_app_data_crypto, p[1], p[2]) : p \in AppPlain}

\* the lengths the caller may pass to recv
RecvLen == {1, 2}

\* the exception of recv propagates to its caller; the socket stays as it is
RecvRaises(s) ==
    /\ raised' = [raised EXCEPT ![s] = TRUE]
    /\ UNCHANGED <<ctx, sess, opened, returned, last_recv>>

\* tinytls: the bytes recv(ln) returns from read_buf
recv_result(read_buf, ln) == BTake(read_buf, ln)

\* tinytls: TLSSocket.recv, which refills read_buf from one record when it is empty
recv(s, ln) ==
    LET c == sess[s].ctx IN
    /\ pkg = "tinytls"
    /\ sess[s].pc = "established"
    /\ Call
    /\ IF sess[s].read_buf = <<>>
       THEN \E rec \in AppRecords(ctx[c]) :
              IF rec = TransportError
                 \/ ~OpenOk(ctx[c].server_app_data_crypto, rec.message, rec.head)
              THEN RecvRaises(s)
              ELSE LET plaindata == decrypt_and_verify(rec.message, rec.head)[1]
                       content_type == decrypt_and_verify(rec.message, rec.head)[2]
                       r == recv_result(plaindata, ln)
                   IN /\ ctx' = [ctx EXCEPT ![c].server_app_data_crypto = NextSeq(@)]
                      /\ opened' = [opened EXCEPT ![s] = Append(@,
                             [plaindata |-> plaindata, content_type |-> content_type])]
                      /\ sess' = [sess EXCEPT ![s].read_buf = BDrop(plaindata, ln)]
                      /\ returned' = [returned EXCEPT ![s] = @ \o r]
                      /\ last_recv' = [last_recv EXCEPT ![s] = [ln |-> ln, r |-> r]]
                      /\ UNCHANGED raised
       ELSE LET r == recv_result(sess[s].read_buf, ln)
            IN /\ sess' = [sess EXCEPT ![s].read_buf = BDrop(@, ln)]
               /\ returned' = [returned EXCEPT ![s] = @ \o r]
               /\ last_recv' = [last_recv EXCEPT ![s] = [ln |-> ln, r |-> r]]
               /\ UNCHANGED <<ctx, raised, opened>>
    /\ UNCHANGED <<pkg, sent, assigned>>

\* tinytls13: TLSSocket.recv, which opens one record on every call
recv13(s, ln) ==
    LET c == sess[s].ctx IN
    /\ pkg = "tinytls13"
    /\ sess[s].pc = "established"
    /\ Call
    /\ \E rec \in AppRecords(ctx[c]) :
         IF rec = TransportError
            \/ ~OpenOk(ctx[c].server_app_data_crypto, rec.message, rec.head)
         THEN RecvRaises(s)
         ELSE LET plaindata == decrypt_and_verify(rec.message, rec.head)[1]
                  content_type == decrypt_and_verify(rec.message, rec.head)[2]
              IN /\ ctx' = [ctx EXCEPT ![c].server_app_data_crypto = NextSeq(@)]
                 /\ opened' = [opened EXCEPT ![s] = Append(@,
                             [plaindata |-> plaindata, content_type |-> content_type])]
                 /\ returned' = [returned EXCEPT ![s] = @ \o plaindata]
                 /\ last_recv' = [last_recv EXCEPT ![s] = [ln |-> ln, r |-> plaindata]]
                 /\ UNCHANGED <<sess, raised>>
    /\ UNCHANGED <<pkg, sent, assigned>>

Next ==
    \/ create_default_context
    \/ \E c \in Contexts : wrap_socket(c)
    \/ TLSSocket13
    \/ \E s \in Sessions : client_hello(s)
    \/ \E s \in Sessions : server_hello(s)
    \/ \E s \in Sessions : server_handshake(s)
    \/ \E s \in Sessions : send_finished(s)
    \/ \E s \in Sessions : key_schedule(s)
    \/ \E s \in Sessions, data \in SendData : send(s, data)
    \/ \E s \in Sessions : send_alert(s)
    \/ \E s \in Sessions : exit(s)
    \/ \E s \in Sessions, ln \in RecvLen : recv(s, ln)
    \/ \E s \in Sessions, ln \in RecvLen : recv13(s, ln)

Spec == Init /\ [][Next]_vars

\* the context of the first connection after each step of a handshake in which
\* the server sends ServerHello, then one record holding its Finished
AfterClientHello ==
    append_message(TLSContext(1), client_hello_message(TLSContext(1).client_public, 1))

AfterServerHello ==
    key_schedule_in_handshake(
        set_key_exchange(append_message(AfterClientHello, ServerHelloMsg(1, TRUE)),
                         parse_server_hello(ServerHelloMsg(1, TRUE))))

FinishedRecord ==
    EncryptedRecord(AfterServerHello.server_traffic_crypto,
                    ServerFinished(AfterServerHello, <<>>), protocol_handshake)

AfterServerHandshake ==
    handshake_segments(
        [AfterServerHello EXCEPT !.server_traffic_crypto = NextSeq(@)],
        decrypt_and_verify(FinishedRecord.message, FinishedRecord.head)[1], FALSE).c

\* the state in which the first wrap_socket (tinytls), or the first handshake
\* driven by the caller (tinytls13), has just returned, with MaxLater calls and
\* handshake records still to come
InitEstablished ==
    /\ pkg \in {"tinytls", "tinytls13"}
    /\ ctx = <<key_schedule_in_app_data(send_finished_ctx(AfterServerHandshake))>>
    /\ sess = <<[ctx |-> 1, pc |-> "established", read_buf |-> <<>>,
                 head |-> FinishedRecord.head, message |-> FinishedRecord.message,
                 content_type |-> protocol_handshake]>>
    /\ sent = << <<protocol_handshake \o protocol_TLS12
                    \o bint_to_bytes(BLen(AfterClientHello.messages[1]), 2)
                    \o AfterClientHello.messages[1],
                  encrypted_app_data(finish_message(AfterServerHandshake),
                                     protocol_handshake,
                                     AfterServerHandshake.client_traffic_crypto)>> >>
    /\ raised = <<FALSE>>
    /\ assigned = <<HandshakeOrder \o AppDataOrder>>
    /\ opened = << <<>> >>
    /\ returned = << <<>> >>
    /\ last_recv = <<[ln |-> 0, r |-> <<>>]>>
    /\ events = MaxEvents - MaxLater

SpecEstablished == InitEstablished /\ [][Next]_vars

\* the runs of Spec in which protocol.read_content returns whenever server_handshake
\* waits in it: the server sends its next record, or the transport fails
SpecDelivering == Spec /\ WF_vars(\E s \in Sessions : server_handshake(s))


\* ------------------------------------------------------ claims: helpers
\* the context of socket s
CtxOf(s) == ctx[sess[s].ctx]

\* no later socket was created on the context of s
LatestOn(s) == \A t \in Sessions : t > s => sess[t].ctx # sess[s].ctx

\* the ClientHello message socket s sent (its first record without the header)
ClientHelloOf(s) == BDrop(sent[s][1], 5)

\* the transcript entries of the connection of s: from its ClientHello on
OwnMessages(s) ==
    LET ms == CtxOf(s).messages
        i == CHOOSE k \in 1..Len(ms) : ms[k] = ClientHelloOf(s)
    IN SubSeq(ms, i, Len(ms))

\* the entries of ms up to and including the first Finished
ThroughFinished(ms) ==
    LET idx == {i \in 1..Len(ms) : BTake(ms[i], 1) = protocol_finished}
    IN IF idx = {} THEN ms
       ELSE SubSeq(ms, 1, CHOOSE i \in idx : \A j \in idx : i <= j)

\* the bytes whose hash is the context of a secret made by derive_secret
Hashed(secret) == secret[1].blk.context[1].blk.sha256

\* the content sealed in a record the client sent, without type and padding
InnerContent(rec) == decrypt_and_verify(BDrop(rec, 5), BTake(rec, 5))[1]

\* the content type sealed in a record the client sent
InnerType(rec) == decrypt_and_verify(BDrop(rec, 5), BTake(rec, 5))[2]

\* the plaintext sealed in a record the client sent
InnerPlain(rec) == rec[6].blk.pt

\* the key that sealed a record the client sent
SealKey(rec) == rec[6].blk.key

\* m is one handshake message: type byte, 3-byte length, content of that length
IsHandshakeMessage(m) ==
    /\ BLen(m) >= 4
    /\ bytes_to_bint(BTake(BDrop(m, 1), 3)) = BLen(m) - 4

IsPrefix(a, b) == Len(a) <= Len(b) /\ a = SubSeq(b, 1, Len(a))

Range(f) == {f[i] : i \in DOMAIN f}

\* the plaindata of the records recv has opened on socket s, in arrival order
Plaindata(s) == [i \in 1..Len(opened[s]) |-> opened[s][i].plaindata]

\* the same, with nothing for a record whose content type is not application_data
ApplicationData(s) ==
    [i \in 1..Len(opened[s]) |->
        IF opened[s][i].content_type = protocol_application_data
        THEN opened[s][i].plaindata ELSE <<>>]

\* ------------------------------------------------------------------ C1
\* this step of socket s appends a Finished message whose 32-byte verify_data is
\* HMAC(HKDF-Expand-Label(server_hs_traffic_secret, "finished", "", 32),
\*      SHA-256(the transcript before that Finished))
AppendsVerifiedFinished(s) ==
    LET c == sess[s].ctx
        before == ctx[c].messages
        after == ctx'[c].messages
    IN \E i \in (Len(before) + 1)..Len(after) :
         /\ BTake(after[i], 1) = protocol_finished
         /\ BLen(BDrop(after[i], 4)) = 32
         /\ BDrop(after[i], 4) =
                hmac_sha256(HKDF_expand_label(ctx[c].server_hs_traffic_secret,
                                              "finished", <<>>, 32),
                            sha256(Join(SubSeq(after, 1, i - 1))))

\* C1: wrap_socket leaves server_handshake for send_finished only in a step that
\* received a server Finished with the expected verify_data; the client Finished is
\* sent, the application keys are derived and the session is returned only after
\* that step, and in that order.
C1_SessionOnlyAfterVerifiedFinished ==
    [][\A s \in Sessions :
         /\ (sess'[s].pc = "send_finished" /\ sess[s].pc # "send_finished")
                => (sess[s].pc = "server_handshake" /\ AppendsVerifiedFinished(s))
         /\ (sess'[s].pc = "key_schedule" /\ sess[s].pc # "key_schedule")
                => sess[s].pc = "send_finished"
         /\ (sess'[s].pc = "established" /\ sess[s].pc # "established")
                => sess[s].pc = "key_schedule"
         /\ (sess[s].pc \in InHandshake /\ sent'[s] # sent[s])
                => sess[s].pc \in {"client_hello", "send_finished"}
         /\ (sess[s].pc \in InHandshake
             /\ ctx'[sess[s].ctx].client_app_traffic_secret
                    # ctx[sess[s].ctx].client_app_traffic_secret)
                => sess[s].pc = "key_schedule"
      ]_vars

\* a session was returned after a handshake whose transcript holds a Finished
C1_Witness ==
    \E s \in Sessions :
        /\ sess[s].pc = "established"
        /\ \E i \in 1..Len(CtxOf(s).messages) :
               BTake(CtxOf(s).messages[i], 1) = protocol_finished

\* ------------------------------------------------------------------ C2
\* C2: in the established state every recv(n) returns at most n bytes, and the
\* bytes returned so far followed by the bytes still buffered are the
\* concatenation of the plaintexts decrypted so far, in arrival order.
C2_RecvReturnsAtMostN ==
    \A s \in Sessions :
        /\ BLen(last_recv[s].r) <= last_recv[s].ln
        /\ returned[s] \o sess[s].read_buf = Join(Plaindata(s))

\* ------------------------------------------------------------------ C3
\* C3: every alert record a session sends is sealed with the client
\* application-traffic cipher and its inner plaintext is level warning (1),
\* description close_notify (0), the content type alert (21), then zero padding.
C3_CloseNotifyIsWarning ==
    \A s \in Sessions : \A i \in 1..Len(sent[s]) :
        (i > 2 /\ InnerType(sent[s][i]) = protocol_alert)
            => /\ InnerPlain(sent[s][i]) = B(<<1, 0, 21>>) \o pad16(3)
               /\ SealKey(sent[s][i]) = CtxOf(s).client_app_data_crypto.key

\* ------------------------------------------------------------------ C4
\* C4: every transcript entry is one handshake message (type byte, 3-byte length,
\* content of that length), so never the content of an alert.
C4_TranscriptHoldsHandshakeMessages ==
    \A c \in Contexts : \A i \in 1..Len(ctx[c].messages) :
        IsHandshakeMessage(ctx[c].messages[i])

\* ------------------------------------------------------------------ C5
\* C5: the transcript hashed into client_app_traffic_secret and
\* server_app_traffic_secret is this connection's messages from ClientHello
\* through the server Finished, and nothing after it.
C5_AppSecretsHashThroughFinished ==
    \A s \in Sessions :
        (sess[s].pc = "established" /\ LatestOn(s))
            => /\ Hashed(CtxOf(s).client_app_traffic_secret)
                      = Join(ThroughFinished(OwnMessages(s)))
               /\ Hashed(CtxOf(s).server_app_traffic_secret)
                      = Join(ThroughFinished(OwnMessages(s)))

\* ------------------------------------------------------------------ C6
\* C6: the transcript hashed into client_hs_traffic_secret and
\* server_hs_traffic_secret is the ClientHello of this connection followed by
\* the ServerHello of this connection, and nothing else.
C6_HandshakeSecretsHashTwoHellos ==
    \A s \in Sessions :
        sess[s].pc \in {"server_handshake", "send_finished", "key_schedule"}
            => /\ BTake(OwnMessages(s)[2], 1) = protocol_server_hello
               /\ Hashed(CtxOf(s).client_hs_traffic_secret)
                      = OwnMessages(s)[1] \o OwnMessages(s)[2]
               /\ Hashed(CtxOf(s).server_hs_traffic_secret)
                      = OwnMessages(s)[1] \o OwnMessages(s)[2]

SecretOrder == HandshakeOrder \o AppDataOrder

\* C8: during a run of wrap_socket each secret is assigned at most once, in the
\* order early, handshake, handshake-traffic pair, master, application-traffic
\* pair: the assignments of a run are a prefix of the order, a secret the run has
\* assigned keeps its value for the rest of the run, and a secret of a context
\* changes only in a step of the wrap_socket run on that context that assigns it
\* for the first time in that run.
C8_SecretsAssignedOnceInOrder ==
    [][/\ \A s \in Sessions : IsPrefix(assigned'[s], SecretOrder)
       /\ \A s \in Sessions : \A n \in Range(assigned[s]) :
            sess[s].pc \in InHandshake => ctx'[sess[s].ctx][n] = ctx[sess[s].ctx][n]
       /\ \A c \in Contexts : \A n \in Range(SecretOrder) :
            ctx'[c][n] # ctx[c][n]
                => \E s \in Sessions :
                       /\ sess[s].ctx = c
                       /\ sess[s].pc \in InHandshake
                       /\ n \notin Range(assigned[s])
                       /\ n \in Range(assigned'[s])
      ]_vars

\* a run of wrap_socket has assigned all seven secrets
C8_Witness ==
    \E s \in Sessions : sess[s].pc = "established" /\ assigned[s] = SecretOrder

\* ------------------------------------------------------------------ C9
\* C9: once an operation on a context or on one of its sessions has raised, no
\* operation writes a further record to the transport of a session of that
\* context.
C9_NoWriteAfterError ==
    [][\A s \in Sessions :
         (\E t \in Sessions : sess[t].ctx = sess[s].ctx /\ raised[t])
             => sent'[s] = sent[s]
      ]_vars

\* ----------------------------------------------------------------- C10
\* socket t acts in this step
Acts(t) ==
    \/ sess'[t] # sess[t]
    \/ sent'[t] # sent[t]
    \/ raised'[t] # raised[t]
    \/ returned'[t] # returned[t]
    \/ opened'[t] # opened[t]

\* C10: an operation on one session leaves the transcript, secrets, ciphers and
\* sequence counters of every other established session unchanged.
C10_SessionsIndependent ==
    [][\A s \in Sessions : \A t \in Sessions :
         (s # t /\ sess[s].pc = "established" /\ Acts(t))
             => ctx'[sess[s].ctx] = ctx[sess[s].ctx]
      ]_vars

\* ----------------------------------------------------------------- C11
\* the body (ciphertext and tag) of a record the client sent
RecordBody(rec) == BDrop(rec, 5)

\* the value of the 2-byte length field of a record the client sent
RecordLength(rec) == bytes_to_bint(BTake(BDrop(rec, 3), 2))

\* C11: every encrypted record a session writes has a body of at most
\* 2^14 + 256 bytes and a length field equal to the length of the body.
C11_RecordsWithinLimit ==
    \A s \in Sessions : \A i \in 2..Len(sent[s]) :
        /\ BLen(RecordBody(sent[s][i])) <= 16384 + 256
        /\ RecordLength(sent[s][i]) = BLen(RecordBody(sent[s][i]))

\* ----------------------------------------------------------------- C12
\* C12: the bytes recv has returned and still buffers are the plaindata of the
\* records of content type application_data it opened, in arrival order: a
\* record of another type, such as a close_notify alert, gives the caller no byte.
C12_RecvReturnsOnlyApplicationData ==
    \A s \in Sessions : returned[s] \o sess[s].read_buf = Join(ApplicationData(s))

\* ----------------------------------------------------------------- C13
\* the position that follows pc in wrap_socket
NextPhase(pc) ==
    CASE pc = "client_hello" -> "server_hello"
      [] pc = "server_hello" -> "server_handshake"
      [] pc = "server_handshake" -> "send_finished"
      [] pc = "send_finished" -> "key_schedule"
      [] pc = "key_schedule" -> "established"
      [] OTHER -> "none"

\* C13: a run of wrap_socket goes through its phases in order, each once:
\* ClientHello appended and sent; ServerHello appended, shared key set and
\* handshake ciphers created; records opened with the server handshake cipher
\* until Finished; client Finished sealed with the client handshake cipher and
\* sent; application keys derived.  A record is opened only with a cipher that
\* exists, and the application keys change only in the key_schedule step of a
\* run that has sent its Finished.
C13_HandshakePhasesInOrder ==
    [][/\ \A s \in Sessions :
            LET c == sess[s].ctx
                pc == sess[s].pc
                moved == sess'[s].pc # pc /\ sess'[s].pc # "failed"
            IN /\ sess'[s].pc # pc => sess'[s].pc \in {NextPhase(pc), "failed"}
               /\ (moved /\ pc = "client_hello")
                      => /\ Len(sent'[s]) = 1
                         /\ BTake(sent'[s][1], 1) = protocol_handshake
                         /\ BTake(BDrop(sent'[s][1], 5), 1) = protocol_client_hello_type
                         /\ ctx'[c].messages = Append(ctx[c].messages, BDrop(sent'[s][1], 5))
               /\ (moved /\ pc = "server_hello")
                      => /\ Len(ctx'[c].messages) = Len(ctx[c].messages) + 1
                         /\ BTake(ctx'[c].messages[Len(ctx'[c].messages)], 1)
                                = protocol_server_hello
                         /\ ctx'[c].shared_key # NoBytes
                         /\ ctx'[c].server_traffic_crypto
                                = ChaCha20Poly1305(
                                      gen_key_and_iv(ctx'[c].server_hs_traffic_secret)[1],
                                      gen_key_and_iv(ctx'[c].server_hs_traffic_secret)[2])
                         /\ ctx'[c].client_traffic_crypto
                                = ChaCha20Poly1305(
                                      gen_key_and_iv(ctx'[c].client_hs_traffic_secret)[1],
                                      gen_key_and_iv(ctx'[c].client_hs_traffic_secret)[2])
                         /\ sent'[s] = sent[s]
               /\ (moved /\ pc = "server_handshake")
                      => /\ AppendsVerifiedFinished(s)
                         /\ ctx'[c].server_traffic_crypto.seq_number
                                = ctx[c].server_traffic_crypto.seq_number + 1
                         /\ sent'[s] = sent[s]
               /\ (moved /\ pc = "send_finished")
                      => /\ Len(sent[s]) = 1 /\ Len(sent'[s]) = 2
                         /\ SealKey(sent'[s][2]) = ctx[c].client_traffic_crypto.key
                         /\ sent'[s][2][6].blk.seq = 0
                         /\ BTake(InnerContent(sent'[s][2]), 1) = protocol_finished
                         /\ InnerType(sent'[s][2]) = protocol_handshake
               /\ (moved /\ pc = "key_schedule")
                      => /\ Len(sent[s]) = 2 /\ sent'[s] = sent[s]
                         /\ ctx'[c].client_app_data_crypto.key # NoBytes
                         /\ ctx'[c].server_app_data_crypto.key # NoBytes
       /\ \A c \in Contexts :
            /\ ctx'[c].server_traffic_crypto.seq_number
                   > ctx[c].server_traffic_crypto.seq_number
                  => /\ ctx[c].server_traffic_crypto.key # NoBytes
                     /\ \E s \in Sessions :
                            sess[s].ctx = c /\ sess[s].pc = "server_handshake"
            /\ (\/ ctx'[c].client_app_traffic_secret # ctx[c].client_app_traffic_secret
                \/ ctx'[c].server_app_traffic_secret # ctx[c].server_app_traffic_secret
                \/ ctx'[c].master_secret # ctx[c].master_secret)
                  => \E s \in Sessions :
                         /\ sess[s].ctx = c
                         /\ sess[s].pc = "key_schedule"
                         /\ Len(sent[s]) = 2
      ]_vars

\* a run of wrap_socket went through all its phases
C13_Witness ==
    \E s \in Sessions :
        /\ sess[s].pc = "established"
        /\ Len(sent[s]) >= 2
        /\ CtxOf(s).server_traffic_crypto.seq_number >= 1
        /\ CtxOf(s).client_app_data_crypto.key # NoBytes

\* ----------------------------------------------------------------- C14
\* socket s reads a record in server_handshake in this step
ReadsInHandshake(s) == sess[s].pc = "server_handshake" /\ events' # events

\* C14: a step of server_handshake that reads a record of content type
\* change_cipher_spec leaves the context (transcript, secrets, ciphers and their
\* sequence counters) as it is, sends nothing, raises nothing and stays in the
\* loop, waiting for the next record.
C14_ChangeCipherSpecIgnored ==
    [][\A s \in Sessions :
         (/\ ReadsInHandshake(s)
          /\ sess'[s].pc # "failed"
          /\ BTake(sess'[s].head, 1) = protocol_change_cipher_spec)
             => /\ ctx' = ctx
                /\ sess'[s].pc = "server_handshake"
                /\ sent' = sent
                /\ raised' = raised
                /\ assigned' = assigned
      ]_vars

\* server_handshake has read two ChangeCipherSpec records and waits for the next
\* record
C14_Witness ==
    \E s \in Sessions :
        /\ sess[s].pc = "server_handshake"
        /\ BTake(sess[s].head, 1) = protocol_change_cipher_spec
        /\ events >= 4
        /\ Len(sess) = 1
        /\ Len(CtxOf(s).messages) = 2

\* ----------------------------------------------------------------- C15
\* C15: a step of server_handshake that opens a record of inner type handshake
\* and does not fail has appended whole handshake messages only: every entry it
\* appends has its 4 header bytes and as many content bytes as they declare.
C15_TruncatedMessageRejected ==
    [][\A s \in Sessions :
         (/\ ReadsInHandshake(s)
          /\ sess'[s].pc # "failed"
          /\ BTake(sess'[s].head, 1) = protocol_application_data
          /\ sess'[s].content_type = protocol_handshake)
             => LET before == ctx[sess[s].ctx].messages
                    after == ctx'[sess[s].ctx].messages
                IN \A i \in (Len(before) + 1)..Len(after) : IsHandshakeMessage(after[i])
      ]_vars

\* ----------------------------------------------------------------- C16
\* socket s reads a record in server_hello in this step
ReadsServerHello(s) == sess[s].pc = "server_hello" /\ events' # events

\* the record is a handshake record of version 0x0303 whose message starts with
\* the ServerHello type
IsServerHelloRecord(head, message) ==
    /\ BTake(head, 3) = protocol_handshake \o protocol_TLS12
    /\ BTake(message, 1) = protocol_server_hello

\* C16: when the record server_hello reads is not a handshake record of version
\* 0x0303 starting with type 0x02, or cannot be read, server_hello raises and
\* leaves the context as it was: nothing appended, no shared key, no handshake
\* secrets or ciphers; the run of wrap_socket ends without a session.
C16_ServerHelloFailsBeforeStateChange ==
    [][\A s \in Sessions :
         (ReadsServerHello(s)
          /\ ~IsServerHelloRecord(sess'[s].head, sess'[s].message))
             => /\ ctx' = ctx
                /\ assigned' = assigned
                /\ sent' = sent
                /\ sess'[s].pc = "failed"
                /\ raised'[s]
      ]_vars

\* server_hello has failed on an alert record
C16_Witness ==
    \E s \in Sessions :
        /\ sess[s].pc = "failed"
        /\ BTake(sess[s].head, 1) = protocol_alert
        /\ CtxOf(s).shared_key = NoBytes

\* ----------------------------------------------------------------- C17
\* record i of socket s is the alert that closes the session
IsCloseRecord(s, i) == i > 2 /\ InnerType(sent[s][i]) = protocol_alert

\* C17: closed is terminal: the alert that closes a session is the last record
\* the session writes, and a session writes application records only once it is
\* established.
C17_NoRecordAfterClose ==
    \A s \in Sessions :
        /\ \A i \in 1..Len(sent[s]) : IsCloseRecord(s, i) => i = Len(sent[s])
        /\ Len(sent[s]) > 2 => sess[s].pc = "established"

\* ----------------------------------------------------------------- C18
\* the additional data a record the client sent was sealed with
SealAad(rec) == rec[6].blk.aad

\* C18: every encrypted record a session writes has the header application_data,
\* 0x0303, uint16 length with that length the length of the ciphertext and tag
\* that follow; it was sealed with exactly that header as additional data; and
\* its plaintext is the content, the true content type byte (handshake for the
\* Finished, application_data for data, alert for the close alert), then fewer
\* than 16 zero bytes that bring it to a multiple of 16 bytes.
C18_HeaderIsAadAndPlaintextPadded ==
    \A s \in Sessions : \A i \in 2..Len(sent[s]) :
        LET rec == sent[s][i]
            pt == InnerPlain(rec)
            inner == InnerContent(rec) \o InnerType(rec)
        IN /\ BTake(rec, 3) = protocol_application_data \o protocol_TLS12
           /\ RecordLength(rec) = BLen(RecordBody(rec))
           /\ BLen(RecordBody(rec)) = BLen(pt) + 16
           /\ SealAad(rec) = BTake(rec, 5)
           /\ BLen(pt) % 16 = 0
           /\ BLen(pt) - BLen(inner) < 16
           /\ pt = inner \o [k \in 1..(BLen(pt) - BLen(inner)) |-> [b |-> 0]]
           /\ IF i = 2
              THEN /\ InnerType(rec) = protocol_handshake
                   /\ BTake(InnerContent(rec), 4) = protocol_finished \o B(<<0, 0, 32>>)
                   /\ BLen(InnerContent(rec)) = 36
              ELSE \/ InnerType(rec) = protocol_application_data
                      /\ InnerContent(rec) \in SendData
                   \/ InnerType(rec) = protocol_alert
                      /\ InnerContent(rec) = alert_message

\* a session has sent its Finished, application data and the close alert
C18_Witness ==
    \E s \in Sessions : \E i, j \in 3..Len(sent[s]) :
        /\ InnerType(sent[s][i]) = protocol_application_data
        /\ InnerType(sent[s][j]) = protocol_alert

\* ----------------------------------------------------------------- C19
\* the sequence number a record the client sent was sealed with
SealSeq(rec) == rec[6].blk.seq

\* C19: the client Finished is sealed with the client handshake cipher at
\* sequence 0; the k-th record a session seals by send or close uses that
\* session's client application cipher, another key than the handshake cipher's,
\* at sequence k-1; the records recv has opened on a session are as many as the
\* sequence number of its server application cipher; no key and sequence number
\* sealed two different records.
C19_CipherSequenceNumbers ==
    /\ \A s \in Sessions : \A i \in 2..Len(sent[s]) :
          IF i = 2 THEN SealSeq(sent[s][i]) = 0
          ELSE /\ SealSeq(sent[s][i]) = i - 3
               /\ SealKey(sent[s][i]) = SealKey(sent[s][3])
               /\ SealKey(sent[s][i]) # SealKey(sent[s][2])
    /\ \A s \in Sessions :
          sess[s].pc = "established"
              => CtxOf(s).server_app_data_crypto.seq_number = Len(opened[s])
    /\ \A s, t \in Sessions : \A i \in 2..Len(sent[s]) : \A j \in 2..Len(sent[t]) :
          (SealKey(sent[s][i]) = SealKey(sent[t][j])
           /\ SealSeq(sent[s][i]) = SealSeq(sent[t][j]))
              => sent[s][i] = sent[t][j] /\ s = t /\ i = j

\* the same for the sessions that do not share their context with another one
C19_UnsharedContext ==
    (\A s, t \in Sessions : s # t => sess[s].ctx # sess[t].ctx)
        => C19_CipherSequenceNumbers

\* ----------------------------------------------------------------- C20
\* the inner loop of server_handshake, started on plaindata, takes off at least one
\* byte each turn and has emptied plaindata after turns turns at most
RECURSIVE InnerLoopEnds(_, _)
InnerLoopEnds(plaindata, turns) ==
    \/ plaindata = <<>>
    \/ /\ turns > 0
       /\ BLen(plaindata_after(plaindata)) < BLen(plaindata)
       /\ InnerLoopEnds(plaindata_after(plaindata), turns - 1)

\* short plaintexts, shorter than a message header among them
ShortPlain ==
    LET Byte == {0, 20} IN
    {B(<<a>>) : a \in Byte}
    \cup {B(<<a, b>>) : a \in Byte, b \in Byte}
    \cup {B(<<a, b, c>>) : a \in Byte, b \in Byte, c \in Byte}
    \cup {B(<<a, b, c, d>>) : a \in Byte, b \in Byte, c \in Byte, d \in Byte}
    \cup {B(<<a, 0, 0, d, 0>>) : a \in Byte, d \in Byte}

\* a session is in the loop of server_handshake
InServerHandshake == \E s \in Sessions : sess[s].pc = "server_handshake"

\* C20: server_handshake terminates. For every plaintext it may decrypt, the inner
\* loop takes off at least one byte each turn and ends within as many turns as the
\* plaintext has bytes; the turn of the outer loop that appends a Finished with the
\* expected verify_data is the last one; a ChangeCipherSpec record, read without
\* an error, leaves the client in the loop in the state it was in, so that any
\* number of them may follow; and
\* when read_content keeps returning, the client leaves the loop or goes on reading
\* until the bound on events.
C20_ServerHandshakeTerminates ==
    /\ [](\A s \in Sessions :
             sess[s].pc = "server_handshake"
                 => \A p \in {q[1] : q \in FlightPlain(CtxOf(s))} \cup ShortPlain :
                        InnerLoopEnds(p, BLen(p)))
    /\ [][\A s \in Sessions :
             /\ (sess[s].pc = "server_handshake" /\ AppendsVerifiedFinished(s))
                    => sess'[s].pc # "server_handshake"
             /\ (/\ sess[s].pc = "server_handshake"
                 /\ events' # events
                 /\ raised' = raised
                 /\ BTake(sess'[s].head, 1) = protocol_change_cipher_spec)
                    => /\ sess'[s].pc = "server_handshake"
                       /\ UNCHANGED <<ctx, sent, raised>>
                       /\ sess'[s].read_buf = sess[s].read_buf
       ]_vars
    /\ InServerHandshake ~> (~InServerHandshake \/ events = MaxEvents)

\* server_handshake returned on the Finished that came after a ChangeCipherSpec
\* record: two records read, and the Finished alone appended to the two hellos
C20_Witness ==
    /\ pkg = "tinytls"
    /\ Sessions = {1}
    /\ events = 4
    /\ sess[1].pc = "send_finished"
    /\ Len(CtxOf(1).messages) = 3
    /\ BTake(CtxOf(1).messages[3], 1) = protocol_finished

=============================================================================
